---- MODULE Spec2Model ----
(***************************************************************************)
(* A/B test engine of neuro_ads (src/neuro_ads/ai/ab_testing.py) over the  *)
(* persisted ABTest and AdCreative rows (src/neuro_ads/models.py), and the *)
(* budget optimizer (src/neuro_ads/ai/budget_optimizer.py) over the AdSet  *)
(* and BudgetOptimization rows.                                            *)
(*                                                                         *)
(* Numbers.  p-values are integers in thousandths (1000 = 1.0), read off   *)
(* the chi-square(1) quantile table PTable from z^2, which is computed     *)
(* exactly as a rational.  Effect sizes are exact rationals <<num, den>>.  *)
(* Time.  A timestamp is [day, clk]: day is the whole-day clock, clk a     *)
(* logical counter that orders the timestamps taken by one call.           *)
(***************************************************************************)
EXTENDS Integers, Sequences, FiniteSets, TLC

VARIABLES now, clk, ids, tests, creatives, analytics, call, result,
          adsets, optimizations

vars == <<now, clk, ids, tests, creatives, analytics, call, result,
         adsets, optimizations>>

-----------------------------------------------------------------------------
(* Bounds of the model *)

MaxTests == 2
MaxVariants == 3
MaxDay == 15
MaxCreateDay == 0
MaxRows == 1
MaxTrials == 5
MaxPosition == 12

-----------------------------------------------------------------------------
(* Program constants *)

TEST_STATUS_CHOICES == {"draft", "running", "completed", "cancelled"}

TEST_TYPE_CHOICES == {"headline", "description", "cta", "creative", "audience"}

min_sample_size == 100

max_test_duration_days == 14

\* 0.05, in thousandths
significance_threshold == 50

\* 0.01, in thousandths
early_stopping_threshold == 10

\* 0.1 = 1 / minimum_effect_size_den
minimum_effect_size_den == 10

MinDurationDays == 3

RegularSignificanceDays == 5

DefaultDurationDays == 7

NoField == "<missing>"

NoTime == [day |-> -1, clk |-> -1]

NoCreative == 0

-----------------------------------------------------------------------------
(* Generic helpers *)

RECURSIVE SumSeq(_)
SumSeq(s) == IF s = <<>> THEN 0 ELSE Head(s) + SumSeq(Tail(s))

RECURSIVE SortedIds(_)
SortedIds(S) ==
    IF S = {} THEN <<>>
    ELSE LET m == CHOOSE x \in S : \A y \in S : x <= y
         IN <<m>> \o SortedIds(S \ {m})

Abs(x) == IF x < 0 THEN -x ELSE x

-----------------------------------------------------------------------------
(* Campaigns: rows that exist before any call of the engine.  "acme" has an
   ad set, "solo" has none (campaign.adset_set.first() is None). *)

Campaigns == {"acme", "solo"}

HasAdSet(c) == c = "acme"

-----------------------------------------------------------------------------
(* Variant labels *)

\* 'Variant k' in "... - Variant i": the decimal digits of i start with k
IdxMentions(i, k) == i = k \/ (i >= 10 /\ i \div 10 = k)

\* the numbers k for which the campaign's name contains 'Variant k'
CampaignNameMentions(campaign) ==
    IF campaign = "Variant 2 promo" THEN {2} ELSE {}

\* 'Variant k' in creative.name, creative.name =
\* "<campaign name> - <Test type> Test - Variant <idx>"
NameContainsVariant(name, k) ==
    k \in CampaignNameMentions(name.campaign) \/ IdxMentions(name.idx, k)

GetVariantType(name) ==
    IF NameContainsVariant(name, 1) THEN "A"
    ELSE IF NameContainsVariant(name, 2) THEN "B"
    ELSE IF NameContainsVariant(name, 3) THEN "C"
    ELSE "A"

-----------------------------------------------------------------------------
(* Statistical test library *)

\* z^2 in hundredths (floor), from the rational n / d without overflow
Hundredths(n, d) == (n \div d) * 100 + ((n % d) * 100) \div d

\* two-tailed p-value 2 * (1 - norm.cdf(|z|)) in thousandths, as a step
\* function of z^2 > 0 (in hundredths) over the chi-square(1) quantiles
\* 0.4549 (p = .5), 1.6424 (.2), 2.7055 (.1), 3.8415 (.05), 5.4119 (.02),
\* 6.6349 (.01), 7.8794 (.005), 10.8276 (.001)
PTable(z2c) ==
    IF z2c <= 45 THEN 999
    ELSE IF z2c <= 164 THEN 499
    ELSE IF z2c <= 270 THEN 199
    ELSE IF z2c <= 384 THEN 99
    ELSE IF z2c <= 541 THEN 49
    ELSE IF z2c <= 663 THEN 19
    ELSE IF z2c <= 787 THEN 9
    ELSE IF z2c <= 1082 THEN 4
    ELSE 0

\* z2c is z^2 in hundredths: it orders the p-values that PTable merges
Inconclusive == [p_value |-> 1000, z2c |-> 0, effect_num |-> 0, effect_den |-> 1,
                 winner |-> "inconclusive"]

\* a winner rule without the tie
ZTestWinnerNoTie(D) == IF D > 0 THEN "A" ELSE "B"

\* 'A' if p_a > p_b else 'B' if p_b > p_a else 'tie', D the sign of p_a - p_b
ZTestWinner(D) == IF D > 0 THEN "A" ELSE IF D < 0 THEN "B" ELSE "tie"

TwoProportionZTest(successes_a, trials_a, successes_b, trials_b) ==
    IF trials_a = 0 \/ trials_b = 0 THEN Inconclusive
    ELSE LET S == successes_a + successes_b
             N == trials_a + trials_b
             \* p_a - p_b = D / (trials_a * trials_b)
             D == successes_a * trials_b - successes_b * trials_a
             \* se^2 = S (N - S) / (N trials_a trials_b)
             seZero == S * (N - S) = 0
             z2n == D * D * N
             z2d == trials_a * trials_b * S * (N - S)
         IN IF seZero THEN Inconclusive
            ELSE [p_value |-> IF D = 0 THEN 1000
                              ELSE PTable(Hundredths(z2n, z2d)),
                  z2c |-> IF D = 0 THEN 0 ELSE Hundredths(z2n, z2d),
                  \* |p_a - p_b| / p_b if p_b > 0 else 0
                  effect_num |-> IF successes_b > 0 THEN Abs(D) ELSE 0,
                  effect_den |-> IF successes_b > 0
                                 THEN trials_a * successes_b ELSE 1,
                  winner |-> ZTestWinner(D)]

\* effect_size > minimum_effect_size
EffectAboveMinimum(t) == t.effect_num * minimum_effect_size_den > t.effect_den

PrimaryMetric(test_type) ==
    IF test_type \in {"headline", "description", "cta"} THEN "ctr"
    ELSE IF test_type = "creative" THEN "conversion_rate"
    ELSE "ctr"

\* labels of test_data in order of first appearance (dict insertion order)
RECURSIVE VariantNames(_)
VariantNames(test_data) ==
    IF test_data = <<>> THEN <<>>
    ELSE LET front == VariantNames(SubSeq(test_data, 1, Len(test_data) - 1))
             v == test_data[Len(test_data)].variant_type
         IN IF \E i \in 1..Len(front) : front[i] = v THEN front
            ELSE Append(front, v)

VariantResults(test_data) ==
    LET names == VariantNames(test_data)
        Total(v, f) ==
            SumSeq([i \in 1..Len(test_data) |->
                      IF test_data[i].variant_type = v
                      THEN test_data[i][f] ELSE 0])
    IN [i \in 1..Len(names) |->
          [variant |-> names[i],
           impressions |-> Total(names[i], "impressions"),
           clicks |-> Total(names[i], "clicks"),
           conversions |-> Total(names[i], "conversions"),
           sample_size |-> Total(names[i], "impressions")]]

\* the pairs (i, j), i < j, in the order of the nested loops
RECURSIVE PairsFrom(_, _, _)
PairsFrom(i, j, n) ==
    IF i >= n THEN <<>>
    ELSE IF j > n THEN PairsFrom(i + 1, i + 2, n)
    ELSE <<<<i, j>>>> \o PairsFrom(i, j + 1, n)

PerformPairwiseTests(variant_results, test_type) ==
    LET pairs == PairsFrom(1, 2, Len(variant_results))
        primary_metric == PrimaryMetric(test_type)
    IN [k \in 1..Len(pairs) |->
          LET data_a == variant_results[pairs[k][1]]
              data_b == variant_results[pairs[k][2]]
              r == TwoProportionZTest(data_a.clicks, data_a.impressions,
                                      data_b.clicks, data_b.impressions)
          IN [variant_a |-> data_a.variant,
              variant_b |-> data_b.variant,
              metric |-> primary_metric,
              p_value |-> r.p_value,
              z2c |-> r.z2c,
              effect_num |-> r.effect_num,
              effect_den |-> r.effect_den,
              winner |-> r.winner,
              is_significant |-> r.p_value < significance_threshold]]

PerformStatisticalAnalysis(test_data, test_type) ==
    LET variant_results == VariantResults(test_data)
        statistical_tests == PerformPairwiseTests(variant_results, test_type)
    IN [variant_results |-> variant_results,
        statistical_tests |-> statistical_tests,
        is_significant |->
            \E k \in 1..Len(statistical_tests) :
                statistical_tests[k].p_value < significance_threshold]

-----------------------------------------------------------------------------
(* Stop decision and winner declaration *)

\* (timezone.now() - ab_test.started_at).days; -1 when started_at is null
DaysRunning(ab_test) ==
    IF ab_test.started_at = NoTime THEN -1 ELSE now - ab_test.started_at.day

\* a minimum observation window that is one day short
BelowMinimumDurationShort(ab_test, days_running) ==
    ab_test.started_at # NoTime /\ days_running < MinDurationDays - 1

\* if ab_test.started_at: ... if days_running < 3
BelowMinimumDuration(ab_test, days_running) ==
    ab_test.started_at # NoTime /\ days_running < MinDurationDays

\* if ab_test.started_at: ... if days_running >= self.max_test_duration_days
MaxDurationReached(ab_test, days_running) ==
    ab_test.started_at # NoTime /\ days_running >= max_test_duration_days

\* a sample size check that wants more than the minimum
MinSampleSizeExceeded(ab_test, variant_results) ==
    \A i \in 1..Len(variant_results) :
        variant_results[i].sample_size > ab_test.minimum_sample_size

MinSampleSizeMet(ab_test, variant_results) ==
    \A i \in 1..Len(variant_results) :
        variant_results[i].sample_size >= ab_test.minimum_sample_size

VerySignificant(statistical_tests) ==
    \E k \in 1..Len(statistical_tests) :
        /\ statistical_tests[k].p_value < early_stopping_threshold
        /\ EffectAboveMinimum(statistical_tests[k])

Significant(statistical_tests) ==
    \E k \in 1..Len(statistical_tests) :
        /\ statistical_tests[k].p_value < significance_threshold
        /\ EffectAboveMinimum(statistical_tests[k])

\* if significant and ab_test.started_at: ... if days_running >= 5
RegularSignificanceReached(ab_test, days_running, statistical_tests) ==
    /\ Significant(statistical_tests)
    /\ ab_test.started_at # NoTime
    /\ days_running >= RegularSignificanceDays

\* if ab_test.started_at: ... if days_running >= ab_test.test_duration_days
PlannedDurationCompleted(ab_test, days_running) ==
    ab_test.started_at # NoTime /\ days_running >= ab_test.test_duration_days

ShouldStopTest(ab_test, days_running, statistical_results) ==
    IF BelowMinimumDuration(ab_test, days_running)
    THEN [stop |-> FALSE, reason |-> "Test running less than minimum duration"]
    ELSE IF MaxDurationReached(ab_test, days_running)
    THEN [stop |-> TRUE, reason |-> "Maximum test duration reached"]
    ELSE IF ~MinSampleSizeMet(ab_test, statistical_results.variant_results)
    THEN [stop |-> FALSE, reason |-> "Minimum sample size not reached"]
    ELSE IF VerySignificant(statistical_results.statistical_tests)
    THEN [stop |-> TRUE, reason |-> "Early stopping - very significant result"]
    ELSE IF RegularSignificanceReached(ab_test, days_running,
                                       statistical_results.statistical_tests)
    THEN [stop |-> TRUE, reason |-> "Statistically significant result"]
    ELSE IF PlannedDurationCompleted(ab_test, days_running)
    THEN [stop |-> TRUE, reason |-> "Planned test duration completed"]
    ELSE [stop |-> FALSE, reason |-> "Continue test"]

NoWinner == "<None>"

NoWinnerResult ==
    [winner |-> NoWinner, winner_name |-> "No clear winner", confidence |-> 0,
     improvement_num |-> 0, improvement_den |-> 1, p_value |-> -1]

\* the first significant test, whatever its p-value
FirstTest(significant_tests) == significant_tests[1]

\* a['p_value'] < b['p_value']: the p-value falls as z^2 grows
PValueLess(a, b) ==
    a.p_value < b.p_value \/ (a.p_value = b.p_value /\ a.z2c > b.z2c)

\* min(significant_tests, key = p_value): the first test of lowest p-value
BestTest(significant_tests) ==
    LET k == CHOOSE i \in 1..Len(significant_tests) :
                 /\ \A j \in 1..Len(significant_tests) :
                        ~PValueLess(significant_tests[j], significant_tests[i])
                 /\ \A j \in 1..(i - 1) :
                        PValueLess(significant_tests[i], significant_tests[j])
    IN significant_tests[k]

IsSignificantTest(t) == t.is_significant

DeclareWinner(statistical_results) ==
    LET significant_tests ==
            SelectSeq(statistical_results.statistical_tests, IsSignificantTest)
    IN IF significant_tests = <<>> THEN NoWinnerResult
       ELSE LET best_test == BestTest(significant_tests)
                winner_variant == best_test.winner
            IN [winner |-> winner_variant,
                winner_name |-> IF winner_variant = "A" THEN best_test.variant_a
                                ELSE IF winner_variant = "B" THEN best_test.variant_b
                                ELSE "Tie",
                confidence |-> 1000 - best_test.p_value,
                improvement_num |-> best_test.effect_num * 100,
                improvement_den |-> best_test.effect_den,
                p_value |-> best_test.p_value]

-----------------------------------------------------------------------------
(* Persisted rows and queries *)

\* a >= b on timestamps
TsGE(a, b) == a.day > b.day \/ (a.day = b.day /\ a.clk >= b.clk)

\* AdCreative.objects.filter(ad_set__campaign = ab_test.campaign,
\*                           created_at__gte = ab_test.started_at), by pk
TestCreativeIds(ab_test) ==
    SortedIds({c \in DOMAIN creatives :
                 /\ creatives[c].campaign = ab_test.campaign
                 /\ TsGE(creatives[c].created_at, ab_test.started_at)})

\* a match that knows the labels 'A' and 'B' only
MatchesWinnerAB(winner_name, variant_type) ==
    winner_name \in {"A", "B"} /\ variant_type = winner_name

\* (winner_name == 'A' and variant_type == 'A') or ... 'B' ... or ... 'C'
MatchesWinner(winner_name, variant_type) ==
    winner_name \in {"A", "B", "C"} /\ variant_type = winner_name

FindWinningCreative(ab_test, winner_name) ==
    LET cids == TestCreativeIds(ab_test)
        hits == {i \in 1..Len(cids) :
                   MatchesWinner(winner_name, GetVariantType(creatives[cids[i]].name))}
    IN IF hits = {} THEN NoCreative
       ELSE cids[CHOOSE i \in hits : \A j \in hits : i <= j]

\* winner_result.get('winner') and winner_result['winner'] != 'Tie'
HasWinner(winner_result) ==
    winner_result.winner # NoWinner /\ winner_result.winner # "Tie"

\* the creatives _pause_losing_variants saves with is_active = False, in order
LosingCreativeIds(ab_test, winner_result) ==
    IF ~HasWinner(winner_result) THEN <<>>
    ELSE SelectSeq(TestCreativeIds(ab_test),
                   LAMBDA c : ~MatchesWinner(winner_result.winner_name,
                                             GetVariantType(creatives[c].name)))

\* the row writes of _finalize_test, in program order
FinalizeWrites(t, winner_result) ==
    LET ab_test == tests[t]
        wc == IF HasWinner(winner_result)
              THEN FindWinningCreative(ab_test, winner_result.winner_name)
              ELSE NoCreative
        losers == LosingCreativeIds(ab_test, winner_result)
    IN (IF wc # NoCreative THEN <<[kind |-> "winner", id |-> wc]>> ELSE <<>>)
       \o <<[kind |-> "test", id |-> wc]>>
       \o [i \in 1..Len(losers) |-> [kind |-> "pause", id |-> losers[i]]]

\* rows after the writes ws have been committed one by one
CreativesAfter(ws) ==
    [c \in DOMAIN creatives |->
       [creatives[c] EXCEPT
          !.is_winner = IF \E i \in 1..Len(ws) : ws[i] = [kind |-> "winner", id |-> c]
                        THEN TRUE ELSE @,
          !.is_active = IF \E i \in 1..Len(ws) : ws[i] = [kind |-> "pause", id |-> c]
                        THEN FALSE ELSE @]]

TestsAfter(t, winner_result, ws) ==
    IF \E i \in 1..Len(ws) : ws[i].kind = "test"
    THEN LET w == CHOOSE x \in {ws[i] : i \in 1..Len(ws)} : x.kind = "test"
         IN [tests EXCEPT
               ![t].status = "completed",
               ![t].completed_at = [day |-> now, clk |-> clk],
               ![t].statistical_significance = winner_result.confidence,
               ![t].winner_creative = IF w.id # NoCreative THEN w.id ELSE @]
    ELSE tests

NoStats == [variant_results |-> <<>>, statistical_tests |-> <<>>,
            is_significant |-> FALSE]

NoResult ==
    [op |-> "none", test |-> 0, success |-> FALSE, kind |-> "none",
     outcome |-> "none", reason |-> "", days |-> -1, stats |-> NoStats,
     winner |-> NoWinnerResult]

\* _finalize_test; fault = 0: every write succeeds, fault = k: the k-th raises;
\* faults are the faults that may happen
FinalizeTest(t, statistical_results, winner_result, stop_reason, faults) ==
    LET ws == FinalizeWrites(t, winner_result)
    IN \E fault \in faults \cap 0..Len(ws) :
       LET done == IF fault = 0 THEN ws ELSE SubSeq(ws, 1, fault - 1)
       IN
       /\ creatives' = CreativesAfter(done)
       /\ tests' = TestsAfter(t, winner_result, done)
       /\ result' = [op |-> "analyze", test |-> t, success |-> fault = 0,
                     kind |-> IF fault = 0 THEN "ok" ELSE "error",
                     outcome |-> IF fault = 0 THEN "completed" ELSE "exception",
                     reason |-> IF fault = 0 THEN stop_reason ELSE "",
                     days |-> DaysRunning(tests[t]),
                     stats |-> statistical_results,
                     winner |-> winner_result]

-----------------------------------------------------------------------------
(* Test data *)

\* impressions, clicks and conversions of one CampaignAnalytics row, or of one
\* row of test_data
MetricInputs ==
    { [impressions |-> 0, clicks |-> 0, conversions |-> 0],
      [impressions |-> 10, clicks |-> 0, conversions |-> 0],
      [impressions |-> 10, clicks |-> 1, conversions |-> 1],
      [impressions |-> 10, clicks |-> 3, conversions |-> 0],
      [impressions |-> 10, clicks |-> 8, conversions |-> 2] }

\* analytics.aggregate(Sum(...)) over date in [started_at.date(), today];
\* `... or 0` for no rows
CampaignTotals(ab_test) ==
    LET dates == SortedIds({d \in DOMAIN analytics :
                              d >= ab_test.started_at.day /\ d <= now})
        Total(f) == SumSeq([i \in 1..Len(dates) |-> analytics[dates[i]][f]])
    IN [impressions |-> Total("impressions"), clicks |-> Total("clicks"),
        conversions |-> Total("conversions")]

\* one row of test_data per selected creative, metrics[c] its counters
TestDataOf(ab_test, metrics) ==
    LET cids == IF ab_test.started_at # NoTime THEN TestCreativeIds(ab_test)
                ELSE <<>>
    IN [i \in 1..Len(cids) |->
          [creative_id |-> cids[i],
           variant_type |-> GetVariantType(creatives[cids[i]].name),
           impressions |-> metrics[cids[i]].impressions,
           clicks |-> metrics[cids[i]].clicks,
           conversions |-> metrics[cids[i]].conversions]]

\* _get_test_data: every creative is given the campaign's totals
GetTestData(ab_test) ==
    TestDataOf(ab_test, [c \in DOMAIN creatives |-> CampaignTotals(ab_test)])

-----------------------------------------------------------------------------
(* run_ab_test_analysis *)

\* a status check that lets every launched test through
IsLaunched(ab_test) == ab_test.status \notin {"draft"}

\* ab_test.status in ['running']
IsRunning(ab_test) == ab_test.status \in {"running"}

Failure(op, t, kind, outcome, reason) ==
    [NoResult EXCEPT !.op = op, !.test = t, !.kind = kind,
                     !.outcome = outcome, !.reason = reason]

\* lines 36-60 on the row of test t as fetched by the caller, with test_data
\* as returned by line 40 and the write faults that may happen
AnalysisBody(t, test_data, faults) ==
    LET ab_test == tests[t]
    IN IF ~IsRunning(ab_test)
       THEN /\ result' = [Failure("analyze", t, "reason", "not_running",
                                  "Test is not running")
                          EXCEPT !.days = DaysRunning(ab_test)]
            /\ UNCHANGED <<tests, creatives>>
       ELSE IF Len(test_data) < 2
       THEN /\ result' = [Failure("analyze", t, "reason", "insufficient",
                                  "Insufficient test data")
                          EXCEPT !.days = DaysRunning(ab_test)]
            /\ UNCHANGED <<tests, creatives>>
       ELSE LET statistical_results ==
                    PerformStatisticalAnalysis(test_data, ab_test.test_type)
                decision == ShouldStopTest(ab_test, DaysRunning(ab_test),
                                           statistical_results)
            IN IF decision.stop
               THEN FinalizeTest(t, statistical_results,
                                 DeclareWinner(statistical_results),
                                 decision.reason, faults)
               ELSE /\ result' = [op |-> "analyze", test |-> t,
                                  success |-> TRUE, kind |-> "ok",
                                  outcome |-> "continue",
                                  reason |-> decision.reason,
                                  days |-> DaysRunning(ab_test),
                                  stats |-> statistical_results,
                                  winner |-> NoWinnerResult]
                    /\ UNCHANGED <<tests, creatives>>

RunAbTestAnalysis(t) ==
    /\ t \in DOMAIN tests
    /\ AnalysisBody(t, GetTestData(tests[t]), {0})
    /\ UNCHANGED <<now, clk, ids, analytics, call, adsets,
                   optimizations>>

-----------------------------------------------------------------------------
(* create_automated_ab_test *)

\* test_config: a field is NoField (test_type) or -1 (numbers) when the key
\* is absent; variants is the length of the 'variants' list
ConfigInputs ==
    [test_type : {"headline", "description", "cta", "creative", "audience",
                  "video", NoField},
     variants : -1..MaxVariants,
     min_sample_size : {-1, 10},
     duration_days : {-1, 2}]

ValidateTestConfig(config) ==
    IF config.test_type = NoField
    THEN [valid |-> FALSE, error |-> "Missing required field: test_type"]
    ELSE IF config.variants = -1
    THEN [valid |-> FALSE, error |-> "Missing required field: variants"]
    ELSE IF config.test_type \notin {"headline", "description", "cta", "creative"}
    THEN [valid |-> FALSE, error |-> "Invalid test type"]
    ELSE IF config.variants < 2
    THEN [valid |-> FALSE, error |-> "Need at least 2 variants for A/B test"]
    ELSE [valid |-> TRUE, error |-> ""]

\* ABTest.objects.create(..., status = 'draft') at timestamp ts
NewTest(campaign, config, ts) ==
    [campaign |-> campaign,
     test_type |-> config.test_type,
     minimum_sample_size |-> IF config.min_sample_size = -1 THEN min_sample_size
                             ELSE config.min_sample_size,
     test_duration_days |-> IF config.duration_days = -1 THEN DefaultDurationDays
                            ELSE config.duration_days,
     status |-> "draft",
     winner_creative |-> NoCreative,
     statistical_significance |-> -1,
     started_at |-> NoTime,
     completed_at |-> NoTime,
     created_at |-> ts]

\* AdCreative.objects.create(...) of variant i (1-based) of test t
NewCreative(t, ab_test, i, ts) ==
    [campaign |-> ab_test.campaign,
     name |-> [campaign |-> ab_test.campaign, test_type |-> ab_test.test_type,
               idx |-> i],
     made_by |-> t,
     created_at |-> ts,
     is_active |-> TRUE,
     is_winner |-> FALSE]

\* the rows _create_test_variants inserts: ids first .. first + n - 1, created
\* at clock values c0 + 1 .. c0 + n of day
CreateTestVariants(t, ab_test, n, first, day, c0) ==
    [c \in first..(first + n - 1) |->
       NewCreative(t, ab_test, c - first + 1,
                   [day |-> day, clk |-> c0 + (c - first + 1)])]

\* the rows and the return value of create_automated_ab_test called on day
\* `day` with the rows db = [clk, ids, tests, creatives]
CreateAutomatedAbTest(db, day, campaign, config, launch_ok) ==
    LET validation_result == ValidateTestConfig(config)
        t == db.ids.test
        ab_test == NewTest(campaign, config, [day |-> day, clk |-> db.clk + 1])
        n == config.variants
    IN IF ~validation_result.valid
       THEN [db |-> db,
             result |-> Failure("create", 0, "reason", "invalid",
                                validation_result.error)]
       ELSE IF ~HasAdSet(campaign)
       THEN \* ValueError from _create_test_variants, caught at line 118
            [db |-> [db EXCEPT !.tests = @ @@ (t :> ab_test),
                               !.ids.test = @ + 1,
                               !.clk = @ + 1],
             result |-> Failure("create", t, "error", "exception",
                                "No ad set found for campaign")]
       ELSE LET made == CreateTestVariants(t, ab_test, n, db.ids.creative,
                                           day, db.clk + 1)
                db1 == [db EXCEPT !.creatives = @ @@ made,
                                  !.ids = [test |-> t + 1,
                                           creative |-> @.creative + n],
                                  !.clk = @ + n + 2]
            IN IF launch_ok
               THEN [db |-> [db1 EXCEPT
                               !.tests = @ @@
                                  (t :> [ab_test EXCEPT
                                           !.status = "running",
                                           !.started_at =
                                               [day |-> day, clk |-> db.clk + n + 2]])],
                     result |-> [NoResult EXCEPT
                                   !.op = "create", !.test = t,
                                   !.success = TRUE, !.kind = "ok",
                                   !.outcome = "created"]]
               ELSE \* ab_test.delete()
                    [db |-> db1,
                     result |-> Failure("create", t, "reason", "launch_failed",
                                        "Failed to launch test")]

Db == [clk |-> clk, ids |-> ids, tests |-> tests, creatives |-> creatives]

CreateCall(campaign, config, launch_ok) ==
    LET r == CreateAutomatedAbTest(Db, now, campaign, config, launch_ok)
    IN /\ now <= MaxCreateDay
       /\ ValidateTestConfig(config).valid => ids.test <= MaxTests + 1
       /\ clk' = r.db.clk
       /\ ids' = r.db.ids
       /\ tests' = r.db.tests
       /\ creatives' = r.db.creatives
       /\ result' = r.result
       /\ UNCHANGED <<now, analytics, call, adsets,
                      optimizations>>

-----------------------------------------------------------------------------
(* Environment: the clock and the ingestion of analytics rows *)

\* the days on which the engine is called after day 0
DayStops == {3, 5, 7, 14}

Tick ==
    /\ \E d \in DayStops :
          /\ d > now
          /\ \A e \in DayStops : e > now => d <= e
          /\ now' = d
    /\ UNCHANGED <<clk, ids, tests, creatives, analytics, call, result, adsets,
                   optimizations>>

AnalyticsInputs ==
    { [impressions |-> 10, clicks |-> 3, conversions |-> 0],
      [impressions |-> 10, clicks |-> 8, conversions |-> 2] }

Ingest(row) ==
    /\ now <= MaxCreateDay
    /\ now \notin DOMAIN analytics
    /\ Cardinality(DOMAIN analytics) < MaxRows
    /\ analytics' = analytics @@ (now :> row)
    /\ UNCHANGED <<now, clk, ids, tests, creatives, call, result, adsets,
                   optimizations>>

-----------------------------------------------------------------------------
(* Specification of the engine's life: calls of create_automated_ab_test and
   run_ab_test_analysis in any order while the days pass *)

NoCall == [op |-> "none"]

\* the A/B engine reads and writes no AdSet budget and no BudgetOptimization
\* row
NoBudgetRows == adsets = <<>> /\ optimizations = <<>>

\* the rows before the engine's first call: one test of the campaign
\* generator, in status st
InitialDb(st) ==
    [clk |-> 0,
     ids |-> [test |-> 2, creative |-> 1],
     tests |-> (1 :> [NewTest("acme",
                              [test_type |-> "headline", variants |-> 0,
                               min_sample_size |-> 1000, duration_days |-> 7],
                              [day |-> 0, clk |-> 0])
                      EXCEPT !.status = st]),
     creatives |-> <<>>]

DbIs(db) ==
    /\ clk = db.clk
    /\ ids = db.ids
    /\ tests = db.tests
    /\ creatives = db.creatives

\* the test of the campaign generator is still in draft, or was cancelled by
\* the operator
Init ==
    /\ now = 0
    /\ \E st \in {"draft", "cancelled"} : DbIs(InitialDb(st))
    /\ analytics = <<>>
    /\ call = NoCall
    /\ result = NoResult
    /\ NoBudgetRows

LifeConfigs ==
    {c \in ConfigInputs :
        c.test_type \in {"headline", "audience"} /\ c.variants >= 1}

Create ==
    \E campaign \in Campaigns, config \in LifeConfigs, launch_ok \in BOOLEAN :
        CreateCall(campaign, config, launch_ok)

Analyze == \E t \in DOMAIN tests : RunAbTestAnalysis(t)

IngestRow == \E row \in AnalyticsInputs : Ingest(row)

Next == Create \/ Analyze \/ Tick \/ IngestRow

Spec == Init /\ [][Next]_vars


-----------------------------------------------------------------------------
(* Specification of one analysis, lines 42-60, as a function of the rows,
   the day and test_data: the rows are those left by two successful launches
   on the same campaign on day 0 (the creatives of the second test are the
   ones the first selects), the analysis runs on day `now` *)

DataConfigsA ==
    {c \in ConfigInputs :
        c.test_type \in {"headline", "creative"} /\ c.variants = 2}

DataConfigsB ==
    {c \in ConfigInputs :
        /\ c.test_type = "headline" /\ c.variants >= 2
        /\ c.min_sample_size = -1 /\ c.duration_days = -1}

FixtureDb(cfgA, cfgB) ==
    LET first == CreateAutomatedAbTest(InitialDb("draft"), 0, "acme", cfgA, TRUE)
    IN CreateAutomatedAbTest(first.db, 0, "acme", cfgB, TRUE).db

\* the counters test_data may carry for the creatives line 40 selects
MetricChoices(t) ==
    IF tests[t].status = "running" /\ tests[t].started_at # NoTime
    THEN LET cids == TestCreativeIds(tests[t])
         IN [{cids[i] : i \in 1..Len(cids)} -> MetricInputs]
    ELSE {<<>>}

InitData ==
    /\ now \in 0..MaxDay
    /\ \E cfgA \in DataConfigsA, cfgB \in DataConfigsB : DbIs(FixtureDb(cfgA, cfgB))
    /\ analytics = <<>>
    /\ \E t \in DOMAIN tests : \E metrics \in MetricChoices(t) :
          call = [op |-> "analyze", test |-> t, metrics |-> metrics]
    /\ result = NoResult
    /\ NoBudgetRows

\* the writes of one _finalize_test are at most one winner, the test and one
\* per creative
FaultInputs == 0..(Cardinality(DOMAIN creatives) + 2)

AnalyzeCall ==
    /\ call.op = "analyze"
    /\ result.op = "none"
    /\ AnalysisBody(call.test, TestDataOf(tests[call.test], call.metrics), {0})
    /\ UNCHANGED <<now, clk, ids, analytics, call, adsets,
                   optimizations>>

AnalyzeCallFaulty ==
    /\ call.op = "analyze"
    /\ result.op = "none"
    /\ AnalysisBody(call.test, TestDataOf(tests[call.test], call.metrics),
                    FaultInputs)
    /\ UNCHANGED <<now, clk, ids, analytics, call, adsets,
                   optimizations>>

\* the life of two tests launched on one campaign on day 0, when the days
\* keep passing and run_ab_test_analysis keeps being invoked on every test
InitLive ==
    /\ now = 0
    /\ \E cfgA \in DataConfigsB, cfgB \in DataConfigsB :
          DbIs(FixtureDb(cfgA, cfgB))
    /\ analytics = <<>>
    /\ call = NoCall
    /\ result = NoResult
    /\ NoBudgetRows

NextLive == Analyze \/ Tick \/ IngestRow

SpecLive ==
    /\ InitLive
    /\ [][NextLive]_vars
    /\ WF_vars(Tick)

SpecData == InitData /\ [][AnalyzeCall]_vars

SpecDataFault == InitData /\ [][AnalyzeCallFaulty]_vars

-----------------------------------------------------------------------------
(* Specification of _validate_test_config as a function of test_config *)

InitValidate ==
    /\ now = 0
    /\ DbIs(InitialDb("draft"))
    /\ analytics = <<>>
    /\ call \in {[op |-> "validate", config |-> c] : c \in ConfigInputs}
    /\ result = NoResult
    /\ NoBudgetRows

ValidateCall ==
    /\ call.op = "validate"
    /\ result.op = "none"
    /\ LET r == ValidateTestConfig(call.config)
       IN result' = [NoResult EXCEPT !.op = "validate", !.success = r.valid,
                                     !.kind = IF r.valid THEN "ok" ELSE "reason",
                                     !.reason = r.error]
    /\ UNCHANGED <<now, clk, ids, tests, creatives, analytics, call, adsets,
                   optimizations>>

SpecValidate == InitValidate /\ [][ValidateCall]_vars

-----------------------------------------------------------------------------
(* Specification of _two_proportion_z_test as a function of its arguments *)

\* counts up to MaxTrials with successes <= trials, and 50 of 1000 twice
ZTestInputs ==
    {[successes_a |-> sa, trials_a |-> ta, successes_b |-> sb, trials_b |-> tb] :
        sa \in 0..MaxTrials, ta \in 0..MaxTrials,
        sb \in 0..MaxTrials, tb \in 0..MaxTrials}
    \cup {[successes_a |-> 50, trials_a |-> 1000,
           successes_b |-> 50, trials_b |-> 1000]}

InitZTest ==
    /\ now = 0
    /\ DbIs(InitialDb("draft"))
    /\ analytics = <<>>
    /\ call \in {[op |-> "ztest", args |-> a] :
                    a \in {x \in ZTestInputs : /\ x.successes_a <= x.trials_a
                                                /\ x.successes_b <= x.trials_b}}
    /\ result = NoResult
    /\ NoBudgetRows

ZTestCall ==
    /\ call.op = "ztest"
    /\ result.op = "none"
    /\ result' = [op |-> "ztest",
                  out |-> TwoProportionZTest(call.args.successes_a,
                                             call.args.trials_a,
                                             call.args.successes_b,
                                             call.args.trials_b)]
    /\ UNCHANGED <<now, clk, ids, tests, creatives, analytics, call, adsets,
                   optimizations>>

SpecZTest == InitZTest /\ [][ZTestCall]_vars

-----------------------------------------------------------------------------
(* Budget optimizer (src/neuro_ads/ai/budget_optimizer.py)

   Numbers.  Money is in whole currency units; scores, utilizations and the
   suggested fractions are integers in hundredths (120 = 1.2); a confidence
   is an integer in three-hundredths (210 = 0.7), the unit in which
   score / 1.5 is exact; a derived ratio is the exact rational [num, den].
   Rows.  adsets maps the ids of the campaign's AdSet rows to their
   allocated_budget, in the order of campaign.adset_set.all(); analytics maps
   an ad set id to the totals of its CampaignAnalytics rows of the window, an
   ad set without rows being absent; optimizations is the sequence of the
   BudgetOptimization rows. *)

\* 0.05, in hundredths
min_budget_change_threshold == 5

\* 0.20, in hundredths
max_budget_change_per_day == 20

\* 0.7, in hundredths
confidence_threshold == 70

Min(a, b) == IF a < b THEN a ELSE b

Max(a, b) == IF a > b THEN a ELSE b

\* `num / den if den > 0 else 0`
Ratio(num, den) ==
    IF den > 0 THEN [num |-> num, den |-> den] ELSE [num |-> 0, den |-> 1]

\* the dicts of performance_data, one per ad set that has rows in the window,
\* in the order of the ad sets
PerformanceData ==
    LET with == SortedIds(DOMAIN adsets \cap DOMAIN analytics)
    IN [k \in 1..Len(with) |->
          LET ad_set == with[k]
              totals == analytics[ad_set]
          IN [ad_set |-> ad_set,
              impressions |-> totals.impressions,
              clicks |-> totals.clicks,
              conversions |-> totals.conversions,
              spend |-> totals.spend,
              revenue |-> totals.revenue,
              ctr |-> Ratio(totals.clicks * 100, totals.impressions),
              cpc |-> Ratio(totals.spend, totals.clicks),
              cpa |-> Ratio(totals.spend, totals.conversions),
              roas |-> Ratio(totals.revenue, totals.spend),
              conversion_rate |-> Ratio(totals.conversions * 100, totals.clicks),
              allocated_budget |-> adsets[ad_set]]]

CampaignTotalsOf(performance_data) ==
    LET Total(f) == SumSeq([i \in 1..Len(performance_data) |->
                              performance_data[i][f]])
    IN [total_spend |-> Total("spend"),
        total_revenue |-> Total("revenue"),
        total_conversions |-> Total("conversions"),
        total_clicks |-> Total("clicks"),
        total_impressions |-> Total("impressions")]

CampaignAverages(campaign_totals) ==
    [avg_ctr |-> Ratio(campaign_totals.total_clicks * 100,
                       campaign_totals.total_impressions),
     avg_cpc |-> Ratio(campaign_totals.total_spend,
                       campaign_totals.total_clicks),
     avg_cpa |-> Ratio(campaign_totals.total_spend,
                       campaign_totals.total_conversions),
     avg_roas |-> Ratio(campaign_totals.total_revenue,
                        campaign_totals.total_spend),
     avg_conversion_rate |-> Ratio(campaign_totals.total_conversions * 100,
                                   campaign_totals.total_clicks)]

\* min(a / b, 2.0) * weight for rationals a, b with b > 0, in hundredths
\* rounded down
Contribution(a, b, weight) ==
    Min((weight * a.num * b.den) \div (a.den * b.num), 2 * weight)

\* the composite score in hundredths, every contribution rounded down
CalculatePerformanceScore(ad_set_data, campaign_averages) ==
    (IF campaign_averages.avg_roas.num > 0
     THEN Contribution(ad_set_data.roas, campaign_averages.avg_roas, 40)
     ELSE 0)
    + (IF campaign_averages.avg_conversion_rate.num > 0
       THEN Contribution(ad_set_data.conversion_rate,
                         campaign_averages.avg_conversion_rate, 25)
       ELSE 0)
    + (IF campaign_averages.avg_ctr.num > 0
       THEN Contribution(ad_set_data.ctr, campaign_averages.avg_ctr, 20)
       ELSE 0)
    + (IF campaign_averages.avg_cpa.num > 0 /\ ad_set_data.cpa.num > 0
       THEN Contribution(campaign_averages.avg_cpa, ad_set_data.cpa, 15)
       ELSE 0)

\* ad_set_data['spend_utilization'] raises KeyError for a dict without the key
EfficiencyScoreRaises(ad_set_data) ==
    "spend_utilization" \notin DOMAIN ad_set_data

\* the efficiency score in hundredths, of a dict that has the key
CalculateEfficiencyScore(ad_set_data) ==
    LET utilization == ad_set_data.spend_utilization
        roas == ad_set_data.roas
        utilization_score ==
            IF 80 <= utilization /\ utilization <= 95 THEN 100
            ELSE IF utilization < 80 THEN (utilization * 100) \div 80
            ELSE Max(50, 100 - (utilization - 95) * 2)
        roas_score == IF roas.num > 0
                      THEN Min((roas.num * 100) \div (roas.den * 3), 100)
                      ELSE 0
    IN (utilization_score * 60 + roas_score * 40) \div 100

\* spend / allocated_budget if allocated_budget > 0 else 0, in hundredths
\* rounded down
SpendUtilization(data) ==
    IF data.allocated_budget > 0
    THEN (data.spend * 100) \div data.allocated_budget
    ELSE 0

\* the positions of a list in the order of list.sort(key = performance_score,
\* reverse = True), which keeps the order of equal scores
SortedByScore(ad_sets) ==
    LET Before(j, i) ==
            \/ ad_sets[j].performance_score > ad_sets[i].performance_score
            \/ /\ ad_sets[j].performance_score = ad_sets[i].performance_score
               /\ j < i
        Rank(i) == 1 + Cardinality({j \in 1..Len(ad_sets) : Before(j, i)})
    IN [k \in 1..Len(ad_sets) |->
          ad_sets[CHOOSE i \in 1..Len(ad_sets) : Rank(i) = k]]

NoMetrics == [raised |-> "none", ad_sets |-> <<>>]

\* the loop over performance_data sets performance_score, then calls
\* _calculate_efficiency_score, which reads the key 'spend_utilization' that
\* the loop sets one line later
CalculatePerformanceMetrics(performance_data) ==
    IF performance_data = <<>> THEN NoMetrics
    ELSE LET campaign_averages ==
                 CampaignAverages(CampaignTotalsOf(performance_data))
             Scored(data) ==
                 [f \in DOMAIN data \cup {"performance_score"} |->
                     IF f = "performance_score"
                     THEN CalculatePerformanceScore(data, campaign_averages)
                     ELSE data[f]]
             Complete(data) ==
                 [f \in DOMAIN data
                        \cup {"efficiency_score", "spend_utilization"} |->
                     IF f = "efficiency_score"
                     THEN CalculateEfficiencyScore(data)
                     ELSE IF f = "spend_utilization"
                     THEN SpendUtilization(data)
                     ELSE data[f]]
         IN IF \E i \in 1..Len(performance_data) :
                  EfficiencyScoreRaises(Scored(performance_data[i]))
            THEN [raised |-> "KeyError", ad_sets |-> <<>>]
            ELSE [raised |-> "none",
                  ad_sets |-> SortedByScore(
                      [i \in 1..Len(performance_data) |->
                          Complete(Scored(performance_data[i]))])]

\* ad_set['performance_score'] > 1.2 and ad_set['spend_utilization'] > 0.8
IsHighPerformer(ad_set) ==
    ad_set.performance_score > 120 /\ ad_set.spend_utilization > 80

\* ad_set['performance_score'] < 0.8
IsLowPerformer(ad_set) == ad_set.performance_score < 80

\* ad_set['spend_utilization'] < 0.6
IsUnderutilized(ad_set) == ad_set.spend_utilization < 60

IncreaseOpportunity(high_performer) ==
    [type |-> "increase_budget",
     ad_set |-> high_performer.ad_set,
     current_budget |-> high_performer.allocated_budget,
     reason |-> "High performance score",
     confidence |-> Min(2 * high_performer.performance_score, 300),
     suggested_increase |-> Min(20, high_performer.performance_score - 100)]

LowPerformerOpportunity(low_performer) ==
    [type |-> "decrease_budget",
     ad_set |-> low_performer.ad_set,
     current_budget |-> low_performer.allocated_budget,
     reason |-> "Low performance score",
     confidence |-> Min(3 * (100 - low_performer.performance_score), 300),
     suggested_decrease |-> Min(30, 100 - low_performer.performance_score)]

UnderutilizedOpportunity(underutil) ==
    [type |-> "decrease_budget",
     ad_set |-> underutil.ad_set,
     current_budget |-> underutil.allocated_budget,
     reason |-> "Low budget utilization",
     confidence |-> 3 * (100 - underutil.spend_utilization),
     suggested_decrease |-> Min(40, 100 - underutil.spend_utilization)]

\* a rule that bars no ad set from the underutilized ones
NeverDoublePenalized(underutil) == TRUE

\* `underutil not in low_performers`
NotDoublePenalized(underutil) == ~IsLowPerformer(underutil)

\* opp['confidence'] >= self.confidence_threshold
IsConfident(opp) == opp.confidence >= 3 * confidence_threshold

\* the opportunities before the confidence filter; ad_sets is
\* metrics['ad_sets'], the scored dicts in descending score
OpportunityCandidates(ad_sets) ==
    IF Len(ad_sets) < 2 THEN <<>>
    ELSE LET IsSpendingLow(a) == IsLowPerformer(a) /\ a.spend_utilization > 30
             IsUnder(a) == IsUnderutilized(a) /\ NotDoublePenalized(a)
             high_performers == SelectSeq(ad_sets, IsHighPerformer)
             low_performers == SelectSeq(ad_sets, IsSpendingLow)
             underutilized == SelectSeq(ad_sets, IsUnder)
             opportunities ==
                 [i \in 1..Len(high_performers) |->
                     IncreaseOpportunity(high_performers[i])]
                 \o [i \in 1..Len(low_performers) |->
                       LowPerformerOpportunity(low_performers[i])]
                 \o [i \in 1..Len(underutilized) |->
                       UnderutilizedOpportunity(underutilized[i])]
         IN opportunities

IdentifyOptimizationOpportunities(ad_sets) ==
    SelectSeq(OpportunityCandidates(ad_sets), IsConfident)

\* the loop over the decrease opportunities from position k on; acc holds
\* new_allocation and budget_to_redistribute
RECURSIVE ApplyDecreases(_, _, _)
ApplyDecreases(opportunities, k, acc) ==
    IF k > Len(opportunities) THEN acc
    ELSE LET opportunity == opportunities[k]
         IN IF opportunity.type # "decrease_budget"
            THEN ApplyDecreases(opportunities, k + 1, acc)
            ELSE LET ad_set_id == opportunity.ad_set
                     current_budget == acc.new_allocation[ad_set_id]
                     decrease_amount ==
                         Min((current_budget * opportunity.suggested_decrease)
                                 \div 100,
                             (current_budget * max_budget_change_per_day)
                                 \div 100)
                 IN ApplyDecreases(opportunities, k + 1,
                      [new_allocation |->
                           [acc.new_allocation EXCEPT
                               ![ad_set_id] = current_budget - decrease_amount],
                       budget_to_redistribute |->
                           acc.budget_to_redistribute + decrease_amount])

\* a share that hands the whole pool to every increase opportunity
WholePool(budget_to_redistribute, weight, total_performance_weight) == budget_to_redistribute

\* budget_to_redistribute * weight, weight the opportunity's part of
\* total_performance_weight
IncreaseShare(budget_to_redistribute, weight, total_performance_weight) ==
    (budget_to_redistribute * weight) \div total_performance_weight

\* the loop over increase_opportunities from position k on
RECURSIVE ApplyIncreases(_, _, _, _, _)
ApplyIncreases(increase_opportunities, k, new_allocation, budget_to_redistribute, total_performance_weight) ==
    IF k > Len(increase_opportunities) THEN new_allocation
    ELSE IF total_performance_weight <= 0
    THEN ApplyIncreases(increase_opportunities, k + 1, new_allocation,
                        budget_to_redistribute, total_performance_weight)
    ELSE LET opportunity == increase_opportunities[k]
             increase_amount ==
                 IncreaseShare(budget_to_redistribute,
                               opportunity.confidence
                                   * opportunity.suggested_increase,
                               total_performance_weight)
             ad_set_id == opportunity.ad_set
             current_budget == new_allocation[ad_set_id]
             max_increase ==
                 (current_budget * max_budget_change_per_day) \div 100
         IN ApplyIncreases(increase_opportunities, k + 1,
                [new_allocation EXCEPT
                    ![ad_set_id] = current_budget
                                     + Min(increase_amount, max_increase)],
                budget_to_redistribute, total_performance_weight)

IsIncrease(opp) == opp.type = "increase_budget"

\* amounts are whole units, every product with a fraction rounded down
CalculateOptimalAllocation(ad_sets, opportunities) ==
    LET start == [id \in {ad_sets[i].ad_set : i \in 1..Len(ad_sets)} |->
                    LET i == CHOOSE j \in 1..Len(ad_sets) : ad_sets[j].ad_set = id
                    IN ad_sets[i].allocated_budget]
        decreased == ApplyDecreases(opportunities, 1,
                        [new_allocation |-> start,
                         budget_to_redistribute |-> 0])
        increase_opportunities == SelectSeq(opportunities, IsIncrease)
        total_performance_weight ==
            SumSeq([i \in 1..Len(increase_opportunities) |->
                      increase_opportunities[i].confidence
                        * increase_opportunities[i].suggested_increase])
    IN IF increase_opportunities # <<>> /\ decreased.budget_to_redistribute > 0
       THEN ApplyIncreases(increase_opportunities, 1, decreased.new_allocation,
                           decreased.budget_to_redistribute,
                           total_performance_weight)
       ELSE decreased.new_allocation

\* new_allocation.get(ad_set.id, current_budget)
NewBudget(new_allocation, ad_set) ==
    IF ad_set \in DOMAIN new_allocation THEN new_allocation[ad_set]
    ELSE adsets[ad_set]

ShouldApplyChanges(new_allocation) ==
    LET order == SortedIds(DOMAIN adsets)
        total_change ==
            SumSeq([k \in 1..Len(order) |->
                      Abs(NewBudget(new_allocation, order[k]) - adsets[order[k]])])
        total_budget == SumSeq([k \in 1..Len(order) |-> adsets[order[k]]])
    IN /\ total_budget > 0
       /\ total_change * 100 >= total_budget * min_budget_change_threshold

\* 'roas': float(total_revenue or 0) / float(total_spend or 1)
SummaryRoas(total_revenue, total_spend) ==
    [num |-> total_revenue, den |-> IF total_spend = 0 THEN 1 ELSE total_spend]

\* the totals of the campaign's rows of the window
GetCurrentMetricsSummary ==
    LET with == SortedIds(DOMAIN analytics)
        Total(f) == SumSeq([k \in 1..Len(with) |-> analytics[with[k]][f]])
    IN [total_spend |-> Total("spend"),
        total_revenue |-> Total("revenue"),
        total_conversions |-> Total("conversions"),
        total_clicks |-> Total("clicks"),
        total_impressions |-> Total("impressions"),
        roas |-> SummaryRoas(Total("revenue"), Total("spend"))]

\* abs(new_budget - previous) >= previous * self.min_budget_change_threshold
BudgetChanges(new_allocation, ad_set) ==
    Abs(NewBudget(new_allocation, ad_set) - adsets[ad_set]) * 100
        >= adsets[ad_set] * min_budget_change_threshold

\* (new_budget - previous) / previous * 100 divides by a previous budget of 0
ChangePercentageRaises(new_allocation, ad_set) ==
    BudgetChanges(new_allocation, ad_set) /\ adsets[ad_set] = 0

\* a failure result that carries a 'reason' key beside the 'error' key
OptimizeResultWithReason ==
    [op |-> "optimize", success |-> FALSE, reason |-> "Optimization failed",
     error |-> "", candidates |-> <<>>, opportunities |-> <<>>,
     new_allocation |-> <<>>]

\* the result dict before its keys are set; "" stands for a key that the dict
\* does not carry
NoOptimizeResult ==
    [op |-> "optimize", success |-> FALSE, reason |-> "", error |-> "",
     candidates |-> <<>>, opportunities |-> <<>>, new_allocation |-> <<>>]

\* the rows and the result after _apply_budget_optimization: the ad sets are
\* saved one by one, in no transaction, up to the first one that raises
ApplyBudgetOptimization(new_allocation, opportunities, candidates) ==
    LET order == SortedIds(DOMAIN adsets)
        raising == {k \in 1..Len(order) :
                       ChangePercentageRaises(new_allocation, order[k])}
        last == IF raising = {} THEN Len(order)
                ELSE CHOOSE k \in raising : \A j \in raising : k <= j
        saved == {order[k] : k \in 1..last}
        previous_allocation == adsets
    IN [adsets |-> [id \in DOMAIN adsets |->
                      IF id \in saved /\ BudgetChanges(new_allocation, id)
                      THEN NewBudget(new_allocation, id)
                      ELSE adsets[id]],
        optimizations |->
            IF raising # {} THEN optimizations
            ELSE Append(optimizations,
                   [previous_allocation |-> previous_allocation,
                    new_allocation |->
                        [id \in DOMAIN previous_allocation |->
                            NewBudget(new_allocation, id)],
                    performance_metrics |-> GetCurrentMetricsSummary]),
        result |->
            IF raising # {}
            THEN [NoOptimizeResult EXCEPT
                     !.error = "float division by zero",
                     !.candidates = candidates,
                     !.opportunities = opportunities,
                     !.new_allocation = new_allocation]
            ELSE [NoOptimizeResult EXCEPT
                     !.success = TRUE,
                     !.reason = "Budget optimization applied",
                     !.candidates = candidates,
                     !.opportunities = opportunities,
                     !.new_allocation = new_allocation]]

Unapplied(res) ==
    [adsets |-> adsets, optimizations |-> optimizations, result |-> res]

\* optimize_campaign_budgets from the scored metrics on: opportunities,
\* allocation, gate and application
OptimizeFromMetrics(metrics) ==
    LET candidates == OpportunityCandidates(metrics.ad_sets)
        opportunities == IdentifyOptimizationOpportunities(metrics.ad_sets)
        new_allocation ==
            CalculateOptimalAllocation(metrics.ad_sets, opportunities)
    IN IF opportunities = <<>>
       THEN Unapplied([NoOptimizeResult EXCEPT
                          !.reason = "No optimization opportunities found",
                          !.candidates = candidates])
       ELSE IF ShouldApplyChanges(new_allocation)
       THEN ApplyBudgetOptimization(new_allocation, opportunities, candidates)
       ELSE Unapplied([NoOptimizeResult EXCEPT
                !.reason = "Budget changes below threshold or too risky",
                !.candidates = candidates,
                !.opportunities = opportunities,
                !.new_allocation = new_allocation])

\* optimize_campaign_budgets(campaign), an exception of the metrics becoming
\* the result {'success': False, 'error': str(e)}
OptimizeCampaignBudgets ==
    LET performance_data == PerformanceData
        metrics == CalculatePerformanceMetrics(performance_data)
    IN IF performance_data = <<>>
       THEN Unapplied([NoOptimizeResult EXCEPT
                          !.reason = "Insufficient performance data"])
       ELSE IF metrics.raised # "none"
       THEN Unapplied([NoOptimizeResult EXCEPT
                          !.error = "'spend_utilization'"])
       ELSE OptimizeFromMetrics(metrics)

-----------------------------------------------------------------------------
(* Specification of optimize_campaign_budgets over the rows of one campaign *)

MaxAdSets == 2

\* no A/B test takes part in a budget cycle
NoTestRows ==
    /\ now = 0
    /\ clk = 0
    /\ ids = [test |-> 1, creative |-> 1]
    /\ tests = <<>>
    /\ creatives = <<>>

\* the totals of one ad set's rows of the window
WindowInputs ==
    {[impressions |-> i, clicks |-> c, conversions |-> v,
      spend |-> s, revenue |-> r] :
        i \in {0, 1000}, c \in {0, 50}, v \in {0, 5},
        s \in {0, 900}, r \in {0, 2000}}

BudgetInputs == {0, 1000}

InitOptimize ==
    /\ NoTestRows
    /\ \E n \in 1..MaxAdSets : adsets \in [1..n -> BudgetInputs]
    /\ \E with \in SUBSET (1..MaxAdSets) : analytics \in [with -> WindowInputs]
    /\ DOMAIN analytics \subseteq DOMAIN adsets
    /\ optimizations = <<>>
    /\ call = [op |-> "optimize"]
    /\ result = NoResult

OptimizeCall ==
    /\ call.op = "optimize"
    /\ result.op = "none"
    /\ LET after == OptimizeCampaignBudgets
       IN /\ adsets' = after.adsets
          /\ optimizations' = after.optimizations
          /\ result' = after.result
    /\ UNCHANGED <<now, clk, ids, tests, creatives, analytics, call>>

SpecOptimize == InitOptimize /\ [][OptimizeCall]_vars

-----------------------------------------------------------------------------
(* Specification of one budget cycle from the scored metrics on *)

MaxScored == 3

ScoreInputs == {20, 50, 100, 150}

UtilizationInputs == {0, 20, 40, 90}

RevenueInputs == {0, 2000}

\* per ad set a budget, a score and a utilization, which is 0 for a budget of
\* 0; the spend of the window is the utilized part of the budget
ScoredInputs ==
    {[allocated_budget |-> b, performance_score |-> s, spend_utilization |-> u] :
        b \in BudgetInputs, s \in ScoreInputs, u \in UtilizationInputs}

ScoredAdSets(scored) ==
    SortedByScore([i \in 1..Len(scored) |->
        [ad_set |-> i,
         allocated_budget |-> scored[i].allocated_budget,
         performance_score |-> scored[i].performance_score,
         spend_utilization |-> scored[i].spend_utilization]])

InitCycle ==
    /\ NoTestRows
    /\ \E n \in 2..MaxScored, revenue \in RevenueInputs :
         \E scored \in [1..n -> {x \in ScoredInputs :
                                    x.allocated_budget = 0
                                        => x.spend_utilization = 0}] :
            /\ adsets = [i \in 1..n |-> scored[i].allocated_budget]
            /\ analytics =
                 [i \in 1..n |->
                    [impressions |-> 1000, clicks |-> 50, conversions |-> 5,
                     spend |-> (scored[i].allocated_budget
                                  * scored[i].spend_utilization) \div 100,
                     revenue |-> revenue]]
            /\ call = [op |-> "cycle",
                       metrics |-> [raised |-> "none",
                                    ad_sets |-> ScoredAdSets(scored)]]
    /\ optimizations = <<>>
    /\ result = NoResult

CycleCall ==
    /\ call.op = "cycle"
    /\ result.op = "none"
    /\ LET after == OptimizeFromMetrics(call.metrics)
       IN /\ adsets' = after.adsets
          /\ optimizations' = after.optimizations
          /\ result' = after.result
    /\ UNCHANGED <<now, clk, ids, tests, creatives, analytics, call>>

SpecCycle == InitCycle /\ [][CycleCall]_vars

\* both entries of the optimizer: from the rows, and from the scored metrics
SpecBudget == (InitOptimize \/ InitCycle) /\ [][OptimizeCall \/ CycleCall]_vars

-----------------------------------------------------------------------------
(* Specification of _calculate_optimal_allocation as a function of the
   opportunities it is passed *)

MaxOpportunities == 2

OpportunityInputs ==
    {[type |-> "increase_budget", ad_set |-> a, confidence |-> c,
      suggested_increase |-> f] :
        a \in 1..MaxAdSets, c \in {210, 300}, f \in {10, 20}}
    \cup {[type |-> "decrease_budget", ad_set |-> a, confidence |-> c,
           suggested_decrease |-> f] :
             a \in 1..MaxAdSets, c \in {210, 300}, f \in {10, 20, 40}}

InitAllocation ==
    /\ NoTestRows
    /\ adsets \in [1..MaxAdSets -> BudgetInputs]
    /\ analytics = <<>>
    /\ optimizations = <<>>
    /\ \E n \in 0..MaxOpportunities :
         \E opportunities \in [1..n -> OpportunityInputs] :
            /\ \A k \in 1..n : opportunities[k].ad_set \in DOMAIN adsets
            /\ call = [op |-> "allocate",
                       ad_sets |-> [i \in 1..MaxAdSets |->
                                      [ad_set |-> i,
                                       allocated_budget |-> adsets[i]]],
                       opportunities |-> opportunities]
    /\ result = NoResult

AllocationCall ==
    /\ call.op = "allocate"
    /\ result.op = "none"
    /\ result' = [op |-> "allocate",
                  new_allocation |->
                      CalculateOptimalAllocation(call.ad_sets,
                                                 call.opportunities)]
    /\ UNCHANGED <<now, clk, ids, tests, creatives, analytics, call, adsets,
                   optimizations>>

SpecAllocation == InitAllocation /\ [][AllocationCall]_vars

-----------------------------------------------------------------------------
(* Specification of _apply_budget_optimization as a function of the
   allocation it is passed *)

ApplyBudgetInputs == {0, 1000, 2000}

\* the changes of the allocation, in hundredths of the current budget
ChangeInputs == {-20, -10, -4, 0, 4, 10, 20}

\* the allocations that passed the gate of _should_apply_changes
InitApply ==
    /\ NoTestRows
    /\ adsets \in [1..MaxAdSets -> ApplyBudgetInputs]
    /\ analytics = [i \in 1..MaxAdSets |->
                      [impressions |-> 1000, clicks |-> 50, conversions |-> 5,
                       spend |-> 100, revenue |-> 200]]
    /\ optimizations = <<>>
    /\ \E change \in [1..MaxAdSets -> ChangeInputs] :
          call = [op |-> "apply",
                  new_allocation |->
                      [i \in 1..MaxAdSets |->
                          adsets[i] + (adsets[i] * change[i]) \div 100]]
    /\ ShouldApplyChanges(call.new_allocation)
    /\ result = NoResult

ApplyCall ==
    /\ call.op = "apply"
    /\ result.op = "none"
    /\ LET after == ApplyBudgetOptimization(call.new_allocation, <<>>, <<>>)
       IN /\ adsets' = after.adsets
          /\ optimizations' = after.optimizations
          /\ result' = after.result
    /\ UNCHANGED <<now, clk, ids, tests, creatives, analytics, call>>

SpecApply == InitApply /\ [][ApplyCall]_vars

-----------------------------------------------------------------------------
(* Specification of _get_variant_type as a function of the names that
   _create_test_variants gives to the creatives of one test *)

\* the campaigns of the engine's life and one whose name holds 'Variant 2'
LabelCampaigns == Campaigns \cup {"Variant 2 promo"}

\* two creatives of one test, at the launch positions first and second
InitLabel ==
    /\ now = 0
    /\ DbIs(InitialDb("draft"))
    /\ analytics = <<>>
    /\ call \in {[op |-> "label", campaign |-> c, test_type |-> ty,
                  first |-> i, second |-> j] :
                    c \in LabelCampaigns,
                    ty \in {"headline", "description", "cta", "creative"},
                    i \in 1..MaxPosition, j \in 1..MaxPosition}
    /\ result = NoResult
    /\ NoBudgetRows

LabelCall ==
    /\ call.op = "label"
    /\ result.op = "none"
    /\ LET Name(i) == [campaign |-> call.campaign,
                       test_type |-> call.test_type, idx |-> i]
       IN result' = [op |-> "label",
                     first |-> GetVariantType(Name(call.first)),
                     second |-> GetVariantType(Name(call.second))]
    /\ UNCHANGED <<now, clk, ids, tests, creatives, analytics, call, adsets,
                   optimizations>>

SpecLabel == InitLabel /\ [][LabelCall]_vars

-----------------------------------------------------------------------------
(* Properties of the test lifecycle *)

Terminal == {"completed", "cancelled"}

\* C1: a test whose status is completed or cancelled keeps its row for ever
\* (never draft or running again), and run_ab_test_analysis on it returns a
\* failure result and changes no test and no creative.  Checked under Spec.
C1_TerminalStatus ==
    [][\A t \in DOMAIN tests :
          tests[t].status \in Terminal =>
             /\ t \in DOMAIN tests'
             /\ tests'[t].status \in Terminal
             /\ tests'[t] = tests[t]
             /\ (result' # result /\ result'.op = "analyze" /\ result'.test = t)
                   => /\ ~result'.success
                      /\ tests' = tests
                      /\ creatives' = creatives]_vars

\* an analysis has been run on a completed test and has failed
C1_Witness ==
    /\ result.op = "analyze"
    /\ result.outcome = "not_running"
    /\ tests[result.test].status = "completed"

\* C3 as stated: an analysis of a test that has been running 14 days or more
\* always stops the test with the max duration reason.  Refuted under Spec:
\* the test's own variants are older than started_at, so the analysis of a
\* test that is alone in its campaign ends at 'Insufficient test data'.
C3_AlwaysStopsAtMaxDuration ==
    (/\ result.op = "analyze"
     /\ result.outcome # "not_running"
     /\ result.days >= 14)
        => /\ result.outcome = "completed"
           /\ result.reason = "Maximum test duration reached"
           /\ tests[result.test].status = "completed"

\* C10 as stated: after a launch failure neither the ABTest nor any
\* AdCreative made by the call is persisted, and the call fails.  Refuted
\* under Spec: ab_test.delete() leaves the AdCreative rows.
C10_LaunchFailureRollsBack ==
    (result.op = "create" /\ result.outcome = "launch_failed")
        => /\ ~result.success
           /\ result.test \notin DOMAIN tests
           /\ \A c \in DOMAIN creatives : creatives[c].made_by # result.test

-----------------------------------------------------------------------------
(* Properties of one analysis *)

\* the test analysed and its row
TheTest == tests[call.test]

\* C2: the analysis of a running test that has run fewer than 3 whole days
\* never completes it, whatever the p-values, effect sizes, sample sizes,
\* minimum_sample_size and test_duration_days are.  Checked under SpecData.
C2_MinimumDurationDominates ==
    (/\ result.op = "analyze"
     /\ result.outcome # "not_running"
     /\ TheTest.started_at # NoTime
     /\ now - TheTest.started_at.day < 3)
        => /\ TheTest.status = "running"
           /\ result.outcome \in {"continue", "insufficient"}
           /\ result.outcome = "continue"
                 => result.reason = "Test running less than minimum duration"

\* on day 2 a very significant pair, sample sizes reached and a planned
\* duration of 2 days leave the test running
C2_Witness ==
    /\ result.op = "analyze"
    /\ result.outcome = "continue"
    /\ now - TheTest.started_at.day = 2
    /\ TheTest.test_duration_days = 2
    /\ \A i \in 1..Len(result.stats.variant_results) :
          result.stats.variant_results[i].impressions >= TheTest.minimum_sample_size
    /\ \E k \in 1..Len(result.stats.statistical_tests) :
          /\ result.stats.statistical_tests[k].p_value < 10
          /\ result.stats.statistical_tests[k].effect_num * 10
                > result.stats.statistical_tests[k].effect_den

\* the stop decision rules (c) to (g) as a table of the analysis' inputs
C4_Table(d, row, vr, st) ==
    LET below == \E i \in 1..Len(vr) : vr[i].impressions < row.minimum_sample_size
        strong(k, p) == st[k].p_value < p /\ st[k].effect_num * 10 > st[k].effect_den
        very == \E k \in 1..Len(st) : strong(k, 10)
        some == \E k \in 1..Len(st) : strong(k, 50)
    IN IF below THEN <<"continue", "Minimum sample size not reached">>
       ELSE IF very THEN <<"completed", "Early stopping - very significant result">>
       ELSE IF some /\ d >= 5 THEN <<"completed", "Statistically significant result">>
       ELSE IF d >= row.test_duration_days
       THEN <<"completed", "Planned test duration completed">>
       ELSE <<"continue", "Continue test">>

\* C4: for 3 <= d < 14 whole days the stop decision is the priority table:
\* sample size below minimum -> continue; else p < 0.01 and effect > 0.10 ->
\* early stop; else p < 0.05 and effect > 0.10 and d >= 5 -> significant
\* stop; else d >= test_duration_days -> planned stop; else continue.
\* Checked under SpecData.
C4_PriorityTable ==
    (/\ result.op = "analyze"
     /\ result.outcome \in {"continue", "completed"}
     /\ result.days >= 3 /\ result.days < 14)
        => <<result.outcome, result.reason>>
              = C4_Table(result.days, TheTest, result.stats.variant_results,
                         result.stats.statistical_tests)

\* an early stop before the 5-day gate, and before the planned duration
C4_Witness ==
    /\ result.op = "analyze"
    /\ result.outcome = "completed"
    /\ result.reason = "Early stopping - very significant result"
    /\ result.days >= 3 /\ result.days < 5
    /\ result.days < TheTest.test_duration_days

\* clicks / impressions of variant v is greater than that of variant w
C5_HigherRate(vr, v, w) ==
    \E i, j \in 1..Len(vr) :
        /\ vr[i].variant = v /\ vr[j].variant = w
        /\ vr[i].clicks * vr[j].impressions > vr[j].clicks * vr[i].impressions

C6_TestCreatives ==
    {c \in DOMAIN creatives :
        /\ creatives[c].campaign = TheTest.campaign
        /\ TsGE(creatives[c].created_at, TheTest.started_at)}

-----------------------------------------------------------------------------
(* Properties of one analysis whose writes may fail *)

\* the creatives of the analysed test that lose against its winner_creative
C7_Losers ==
    {c \in C6_TestCreatives :
        GetVariantType(creatives[c].name)
           # GetVariantType(creatives[TheTest.winner_creative].name)}

\* C7 as stated: a creative is persisted with is_winner = true or paused only
\* if the test is persisted as completed, and a test persisted as completed
\* with a winner has all its losing creatives paused.  Refuted under
\* SpecDataFault: winner_creative.save() is committed before ab_test.save(),
\* and ab_test.save() before the saves of the losing creatives.
C7_AllOrNothing ==
    /\ (\E c \in DOMAIN creatives :
           creatives[c].is_winner \/ ~creatives[c].is_active)
          => TheTest.status = "completed"
    /\ (TheTest.status = "completed" /\ TheTest.winner_creative # NoCreative)
          => \A c \in C7_Losers : ~creatives[c].is_active

\* C8 as stated: when run_ab_test_analysis returns success = false the test's
\* status, completed_at, statistical_significance and winner_creative and
\* every creative's is_winner and is_active are as before the call.  Refuted
\* under SpecDataFault: the writes before the failing one stay committed.
C8_FailureLeavesStateUnchanged ==
    [][(result'.op = "analyze" /\ ~result'.success) =>
          /\ tests'[call.test].status = tests[call.test].status
          /\ tests'[call.test].completed_at = tests[call.test].completed_at
          /\ tests'[call.test].statistical_significance
                = tests[call.test].statistical_significance
          /\ tests'[call.test].winner_creative = tests[call.test].winner_creative
          /\ \A c \in DOMAIN creatives :
                /\ creatives'[c].is_winner = creatives[c].is_winner
                /\ creatives'[c].is_active = creatives[c].is_active]_vars

-----------------------------------------------------------------------------
(* Properties of the validation of a configuration *)

\* C9 as stated: a configuration is accepted exactly when its test_type is
\* one of the five types of ABTest.TEST_TYPE_CHOICES and it has at least two
\* variants, and a rejection carries an error reason.  Refuted under
\* SpecValidate: 'audience' with two variants is rejected.
C9_ValidationAcceptsFiveTypes ==
    result.op = "validate" =>
        /\ result.success = (/\ call.config.test_type \in TEST_TYPE_CHOICES
                             /\ call.config.variants >= 2)
        /\ ~result.success => result.reason # ""

-----------------------------------------------------------------------------
(* Properties of create_automated_ab_test and of the metric compared *)

\* C11 as stated: when create_automated_ab_test returns a non-success result
\* no ABTest made by the call is persisted.  Refuted under Spec: for a
\* campaign without an ad set _create_test_variants raises after
\* ABTest.objects.create, and the except clause leaves the draft row.
C11_NoTestLeftOnFailure ==
    (result.op = "create" /\ ~result.success)
        => /\ result.test \notin DOMAIN tests
           /\ \A t \in DOMAIN tests :
                 tests[t].created_at.clk > 0 => tests[t].status # "draft"

\* the successes and trials the claim gives to the two-proportion test
C12_Successes(test_type, v) ==
    IF test_type = "creative" THEN v.conversions ELSE v.clicks

C12_Trials(test_type, v) ==
    IF test_type = "creative" THEN v.clicks ELSE v.impressions

\* C12 as stated: the pairwise tests compare clicks over impressions for
\* headline, description, cta and any other type, and conversions over
\* clicks for creative.  Refuted under SpecData: a creative test is given
\* clicks over impressions too.
C12_MetricFollowsTestType ==
    (result.op = "analyze" /\ result.outcome \in {"continue", "completed"})
        => LET st == result.stats.statistical_tests
               vr == result.stats.variant_results
               ty == TheTest.test_type
           IN \A k \in 1..Len(st) : \A i, j \in 1..Len(vr) :
                 (vr[i].variant = st[k].variant_a /\ vr[j].variant = st[k].variant_b)
                    => LET r == TwoProportionZTest(
                                    C12_Successes(ty, vr[i]), C12_Trials(ty, vr[i]),
                                    C12_Successes(ty, vr[j]), C12_Trials(ty, vr[j]))
                       IN /\ st[k].p_value = r.p_value
                          /\ st[k].winner = r.winner
                          /\ st[k].effect_num * r.effect_den
                                = r.effect_num * st[k].effect_den

-----------------------------------------------------------------------------
(* Properties of the two-proportion test *)

\* C15: for counts with successes <= trials the two-proportion test returns
\* p_value 1.0, effect_size 0 and winner 'inconclusive' when a trials count
\* is 0 or the pooled standard error is 0 (pooled proportion 0 or 1), and
\* otherwise winner 'A', 'B' or 'tie' by the sign of p_a - p_b and
\* effect_size |p_a - p_b| / p_b, 0 when p_b = 0.  Checked under SpecZTest.
C15_ZTestOutcome ==
    result.op = "ztest" =>
        LET sa == call.args.successes_a
            ta == call.args.trials_a
            sb == call.args.successes_b
            tb == call.args.trials_b
            out == result.out
            degenerate == \/ ta = 0 \/ tb = 0
                          \/ sa + sb = 0
                          \/ sa + sb = ta + tb
        IN IF degenerate
           THEN /\ out.p_value = 1000
                /\ out.effect_num = 0
                /\ out.winner = "inconclusive"
           ELSE /\ out.winner = "A" <=> sa * tb > sb * ta
                /\ out.winner = "B" <=> sb * ta > sa * tb
                /\ out.winner = "tie" <=> sa * tb = sb * ta
                /\ out.effect_den > 0
                /\ IF sb = 0 THEN out.effect_num = 0
                   ELSE out.effect_num * (ta * sb)
                           = Abs(sa * tb - sb * ta) * out.effect_den

\* 50 of 1000 against 50 of 1000 is a tie of effect size 0
C15_Witness ==
    /\ result.op = "ztest"
    /\ call.args = [successes_a |-> 50, trials_a |-> 1000,
                    successes_b |-> 50, trials_b |-> 1000]
    /\ result.out.winner = "tie"
    /\ result.out.effect_num = 0

-----------------------------------------------------------------------------
(* Properties of the budget optimizer *)

C13_ZeroWhenNoDenominator(ratio, den) == den = 0 => ratio.num = 0

\* C13: for all non-negative totals, every ratio derived by the metrics
\* aggregation of the optimizer (CTR, conversion rate, CPC, CPA and ROAS per
\* ad set and as campaign averages) is 0 whenever its denominator is 0, and
\* the computation never raises.  Checked under SpecOptimize.
C13_RatiosNeverRaise ==
    result.op = "optimize" =>
        LET performance_data == PerformanceData
            campaign_totals == CampaignTotalsOf(performance_data)
            campaign_averages == CampaignAverages(campaign_totals)
        IN /\ \A i \in 1..Len(performance_data) :
                LET data == performance_data[i]
                IN /\ C13_ZeroWhenNoDenominator(data.ctr, data.impressions)
                   /\ C13_ZeroWhenNoDenominator(data.cpc, data.clicks)
                   /\ C13_ZeroWhenNoDenominator(data.cpa, data.conversions)
                   /\ C13_ZeroWhenNoDenominator(data.roas, data.spend)
                   /\ C13_ZeroWhenNoDenominator(data.conversion_rate, data.clicks)
           /\ C13_ZeroWhenNoDenominator(campaign_averages.avg_ctr,
                                        campaign_totals.total_impressions)
           /\ C13_ZeroWhenNoDenominator(campaign_averages.avg_cpc,
                                        campaign_totals.total_clicks)
           /\ C13_ZeroWhenNoDenominator(campaign_averages.avg_cpa,
                                        campaign_totals.total_conversions)
           /\ C13_ZeroWhenNoDenominator(campaign_averages.avg_roas,
                                        campaign_totals.total_spend)
           /\ C13_ZeroWhenNoDenominator(campaign_averages.avg_conversion_rate,
                                        campaign_totals.total_clicks)
           /\ result.error = ""

\* the ratio convention alone, which the aggregation keeps
C13_RatiosAlone ==
    result.op = "optimize" =>
        \A i \in 1..Len(PerformanceData) :
            LET data == PerformanceData[i]
            IN /\ C13_ZeroWhenNoDenominator(data.ctr, data.impressions)
               /\ C13_ZeroWhenNoDenominator(data.cpc, data.clicks)
               /\ C13_ZeroWhenNoDenominator(data.cpa, data.conversions)
               /\ C13_ZeroWhenNoDenominator(data.roas, data.spend)
               /\ C13_ZeroWhenNoDenominator(data.conversion_rate, data.clicks)

\* C14: the metrics snapshot stored in a BudgetOptimization record has a
\* return on ad spend of 0 whenever the total spend of the window is 0,
\* whatever the total revenue.  Checked under SpecCycle.
C14_SnapshotRoasZeroWithoutSpend ==
    \A k \in 1..Len(optimizations) :
        optimizations[k].performance_metrics.total_spend = 0
            => optimizations[k].performance_metrics.roas.num = 0

C16_CountFor(opportunities, ad_set) ==
    Cardinality({k \in 1..Len(opportunities) :
                    opportunities[k].ad_set = ad_set})

\* C16: for every set of scored ad sets, the candidates flagged in one cycle
\* and the opportunity list kept from them contain at most one opportunity
\* per ad set: no ad set is both an increase and a decrease candidate, and
\* none is flagged both as underperforming and as underutilized.  Checked
\* under SpecCycle.
C16_OneOpportunityPerAdSet ==
    result.op = "optimize" =>
        \A ad_set \in DOMAIN adsets :
            /\ C16_CountFor(result.candidates, ad_set) <= 1
            /\ C16_CountFor(result.opportunities, ad_set) <= 1

\* an ad set of score 0.5 and utilization 0.4 is flagged once, as
\* underperforming
C16_Witness ==
    /\ result.op = "optimize"
    /\ \E i \in 1..Len(call.metrics.ad_sets) :
          /\ call.metrics.ad_sets[i].performance_score = 50
          /\ call.metrics.ad_sets[i].spend_utilization = 40
          /\ C16_CountFor(result.candidates, call.metrics.ad_sets[i].ad_set) = 1
          /\ \E k \in 1..Len(result.candidates) :
                /\ result.candidates[k].ad_set = call.metrics.ad_sets[i].ad_set
                /\ result.candidates[k].reason = "Low performance score"

\* C17: in a cycle over at least two scored ad sets, every ad set with
\* spend_utilization < 0.6 that is not an underperformance decrease candidate
\* (not both score < 0.8 and utilization > 0.3) and whose confidence
\* 1 - utilization is at least 0.70 yields an underutilization decrease
\* opportunity; so does an ad set of score 0.5 and utilization 0.2.  Checked
\* under SpecCycle.
C17_UnderutilizationRule ==
    result.op = "optimize" =>
        \A i \in 1..Len(call.metrics.ad_sets) :
            LET a == call.metrics.ad_sets[i]
            IN (/\ Len(call.metrics.ad_sets) >= 2
                /\ a.spend_utilization < 60
                /\ ~(a.performance_score < 80 /\ a.spend_utilization > 30)
                /\ 100 - a.spend_utilization >= 70)
               => \E k \in 1..Len(result.opportunities) :
                     /\ result.opportunities[k].ad_set = a.ad_set
                     /\ result.opportunities[k].type = "decrease_budget"
                     /\ result.opportunities[k].reason = "Low budget utilization"

C18_WithinDailyLimit(ad_set) ==
    Abs(result.new_allocation[ad_set] - adsets[ad_set]) * 100
        <= adsets[ad_set] * 20

\* C18: for every list of opportunities passed to the allocation step, among
\* them lists that name one ad set more than once, no ad set's new budget
\* differs from its prior budget by more than 20% of the prior budget.
\* Checked under SpecAllocation.
C18_ChangeWithinDailyLimit ==
    result.op = "allocate" =>
        \A ad_set \in DOMAIN adsets : C18_WithinDailyLimit(ad_set)

\* the limit holds for the lists that name every ad set at most once
C18_LimitWithoutRepetition ==
    (/\ result.op = "allocate"
     /\ \A j, k \in 1..Len(call.opportunities) :
           call.opportunities[j].ad_set = call.opportunities[k].ad_set => j = k)
        => \A ad_set \in DOMAIN adsets : C18_WithinDailyLimit(ad_set)

\* ad set 1 is A (score 1.5, utilization 0.9, budget 1000), ad set 2 is B
\* (score 0.5, utilization 0.9, budget 1000)
C19_Scenario ==
    /\ call.op = "cycle"
    /\ call.metrics.ad_sets =
         <<[ad_set |-> 1, allocated_budget |-> 1000,
            performance_score |-> 150, spend_utilization |-> 90],
           [ad_set |-> 2, allocated_budget |-> 1000,
            performance_score |-> 50, spend_utilization |-> 90]>>

\* C19: for ad sets A (score 1.5, utilization 0.9, budget 1000) and B (score
\* 0.5, utilization 0.9, budget 1000) one cycle takes A as an increase and B
\* as a decrease opportunity, sets B's budget to 800 and A's to 1200, passes
\* the 5% gate and creates one BudgetOptimization record with previous
\* {A: 1000, B: 1000} and new {A: 1200, B: 800}.  Checked under SpecCycle.
C19_EndToEndScenario ==
    (C19_Scenario /\ result.op = "optimize") =>
        /\ \E k \in 1..Len(result.opportunities) :
              /\ result.opportunities[k].ad_set = 1
              /\ result.opportunities[k].type = "increase_budget"
        /\ \E k \in 1..Len(result.opportunities) :
              /\ result.opportunities[k].ad_set = 2
              /\ result.opportunities[k].type = "decrease_budget"
        /\ adsets = <<1200, 800>>
        /\ result.success
        /\ Len(optimizations) = 1
        /\ optimizations[1].previous_allocation = <<1000, 1000>>
        /\ optimizations[1].new_allocation = <<1200, 800>>

C20_Invoked == result.op = "none" /\ result'.op = "optimize"

\* C20: every invocation either is a no-op, in which case no ad set's
\* allocated_budget changes and no BudgetOptimization record is created, or
\* is applied, in which case exactly one record is created, whose
\* previous_allocation maps every ad set of the campaign to its budget before
\* the cycle.  Checked under SpecCycle.
C20_NoOpOrApplied ==
    [][C20_Invoked =>
         IF result'.success
         THEN /\ Len(optimizations') = Len(optimizations) + 1
              /\ SubSeq(optimizations', 1, Len(optimizations)) = optimizations
              /\ optimizations'[Len(optimizations')].previous_allocation = adsets
         ELSE /\ adsets' = adsets
              /\ optimizations' = optimizations]_vars

\* C21: applying an optimization is all-or-nothing: when a step of the apply
\* phase fails (here the change percentage of an ad set whose allocated_budget
\* is 0) no ad set budget written by the invocation stays persisted and no
\* BudgetOptimization record exists for it, and no ad set budget is persisted
\* changed without the record of the invocation.  Checked under SpecCycle.
C21_ApplyAllOrNothing ==
    [][(result.op = "none" /\ result'.op = "optimize") =>
          /\ result'.error # ""
                => adsets' = adsets /\ optimizations' = optimizations
          /\ adsets' # adsets
                => Len(optimizations') = Len(optimizations) + 1]_vars

C22_NoOpReasons ==
    {"Insufficient performance data",
     "No optimization opportunities found",
     "Budget changes below threshold or too risky"}

\* C22: a result of optimize_campaign_budgets that is not a success carries
\* either a 'reason' or an 'error', never both: no rows in the window, no
\* opportunity and a change below the gate give one of the three no-op
\* reasons and no error, a caught exception gives an error and no reason.
\* Checked under SpecBudget.
C22_ReasonOrError ==
    [][(result.op = "none" /\ result'.op = "optimize" /\ ~result'.success) =>
          /\ (result'.reason # "") # (result'.error # "")
          /\ result'.reason # "" => result'.reason \in C22_NoOpReasons
          /\ (call.op = "optimize" /\ DOMAIN analytics \cap DOMAIN adsets = {})
                => result'.reason = "Insufficient performance data"
          /\ (call.op = "optimize" /\ DOMAIN analytics \cap DOMAIN adsets # {})
                => result'.error = "'spend_utilization'"
          /\ (call.op = "cycle" /\ result'.opportunities = <<>>)
                => result'.reason = "No optimization opportunities found"
          /\ (call.op = "cycle" /\ result'.opportunities # <<>>
                /\ ~ShouldApplyChanges(result'.new_allocation))
                => result'.reason
                     = "Budget changes below threshold or too risky"
          /\ (call.op = "cycle" /\ result'.opportunities # <<>>
                /\ ShouldApplyChanges(result'.new_allocation))
                => result'.error = "float division by zero"]_vars

\* a caught ZeroDivisionError is reported as an error without a reason
C22_Witness ==
    /\ result.op = "optimize"
    /\ result.error = "float division by zero"
    /\ result.reason = ""

C27_Before == [id \in DOMAIN adsets |->
                  LET k == CHOOSE j \in 1..Len(call.metrics.ad_sets) :
                              call.metrics.ad_sets[j].ad_set = id
                  IN call.metrics.ad_sets[k].allocated_budget]

C27_Total(allocation) ==
    LET order == SortedIds(DOMAIN allocation)
    IN SumSeq([k \in 1..Len(order) |-> allocation[order[k]]])

C27_Increased ==
    {id \in DOMAIN adsets : result.new_allocation[id] > C27_Before[id]}

\* C27: the allocation computed from the opportunities of one cycle never
\* creates budget: the total of the new budgets is at most the total of the
\* previous budgets, and without a decrease opportunity no budget changes,
\* increase opportunities or not.  Checked under SpecCycle.
C27_NeverCreatesBudget ==
    (result.op = "optimize" /\ result.opportunities # <<>>) =>
        /\ C27_Total(result.new_allocation) <= C27_Total(C27_Before)
        /\ (\A k \in 1..Len(result.opportunities) :
               result.opportunities[k].type # "decrease_budget")
              => result.new_allocation = C27_Before

\* two ad sets are raised out of the pool that a third one gives up
C27_Witness ==
    /\ result.op = "optimize"
    /\ result.opportunities # <<>>
    /\ Cardinality(C27_Increased) = 2
    /\ C27_Total(result.new_allocation) = C27_Total(C27_Before)

\* C28: after every applied cycle the new_allocation stored in the created
\* BudgetOptimization record equals, for each ad set of the campaign, the
\* allocated_budget persisted at the end of the cycle, ad sets whose own
\* change is below the 5% write threshold included.  Checked under SpecApply.
C28_RecordMatchesBudgets ==
    (result.op = "optimize" /\ result.success) =>
        /\ Len(optimizations) = 1
        /\ \A id \in DOMAIN adsets :
              optimizations[1].new_allocation[id] = adsets[id]

-----------------------------------------------------------------------------
(* Properties of the variant labels, the test's creatives and the lifecycle *)

C23_PositionLabel(i) ==
    IF i = 1 THEN "A" ELSE IF i = 2 THEN "B" ELSE IF i = 3 THEN "C" ELSE "none"

\* C23: the label of a creative is determined by its launch position alone
\* (1st is A, 2nd is B, 3rd is C), whatever the campaign's and the test's
\* name, and creatives at different positions never share a label, for any
\* number of variants.  Checked under SpecLabel.
C23_LabelByPosition ==
    result.op = "label" =>
        /\ call.first <= 3 => result.first = C23_PositionLabel(call.first)
        /\ call.second <= 3 => result.second = C23_PositionLabel(call.second)
        /\ call.first # call.second => result.first # result.second

\* the labels of the first three positions when the campaign's name holds no
\* 'Variant k'
C23_FirstThreePositions ==
    (result.op = "label" /\ CampaignNameMentions(call.campaign) = {}
        /\ call.first <= 3 /\ call.second <= 3) =>
        /\ result.first = C23_PositionLabel(call.first)
        /\ result.second = C23_PositionLabel(call.second)

\* C24: after a successful create_automated_ab_test every variant creative
\* created by the call has created_at >= the test's started_at, so that the
\* created_at >= started_at filter of the analysis, of the winner lookup and
\* of the loser pausing selects it.  Checked under Spec.
C24_VariantsNotBeforeStart ==
    \A t \in DOMAIN tests :
        tests[t].started_at # NoTime =>
            \A c \in DOMAIN creatives :
                creatives[c].made_by = t =>
                    /\ TsGE(creatives[c].created_at, tests[t].started_at)
                    /\ \E i \in 1..Len(TestCreativeIds(tests[t])) :
                          TestCreativeIds(tests[t])[i] = c

\* C25: a test created by create_automated_ab_test that is running, and on
\* which run_ab_test_analysis is invoked again and again while the days pass,
\* eventually reaches the status completed.  The days pass by the fairness of
\* SpecLive; the repeated invocation is the premise.  Checked under SpecLive.
C25_RunningEventuallyCompleted ==
    \A t \in 2..(MaxTests + 1) :
        ([]<><<RunAbTestAnalysis(t)>>_vars)
            => ((t \in DOMAIN tests /\ tests[t].status = "running")
                   ~> (t \in DOMAIN tests /\ tests[t].status = "completed"))

\* C26: for two tests on one campaign, finalizing the earlier one changes
\* is_active and is_winner only on creatives created as its own variants,
\* and its winner_creative is one of its own variants.  Checked under
\* SpecData, whose creatives all start active and not winners.
C26_FinalizationStaysInsideTest ==
    (result.op = "analyze" /\ result.outcome = "completed")
        => /\ \A c \in DOMAIN creatives :
                 (creatives[c].is_winner \/ ~creatives[c].is_active)
                     => creatives[c].made_by = result.test
           /\ tests[result.test].winner_creative # NoCreative
                 => creatives[tests[result.test].winner_creative].made_by
                        = result.test

\* C29: whenever a finalization has marked a creative as winner, the
\* pairwise test chosen for the winner has p-value < 0.05 and effect size
\* above the minimum effect size, whatever the stop reason.  Checked under
\* SpecData.
C29_WinnerIsSignificantAndLarge ==
    (/\ result.op = "analyze" /\ result.outcome = "completed"
     /\ \E c \in DOMAIN creatives : creatives[c].is_winner)
        => /\ result.winner.p_value >= 0
           /\ result.winner.p_value < significance_threshold
           /\ result.winner.improvement_num * minimum_effect_size_den
                  > 100 * result.winner.improvement_den

\* the rows of test_data attribute disjoint parts of the campaign's traffic:
\* two variants together are given no more than the campaign's totals
C30_DisjointScopes(variant_results, totals) ==
    \A i, j \in 1..Len(variant_results) :
        i < j => /\ variant_results[i].impressions + variant_results[j].impressions
                       <= totals.impressions
                 /\ variant_results[i].clicks + variant_results[j].clicks
                       <= totals.clicks

\* C30: the metrics run_ab_test_analysis attributes to a creative are
\* restricted to that creative's own scope, so that two variants of a test
\* can be given different proportions and the analysis can declare a genuine
\* winner.  Checked under SpecLive.
C30_MetricsOfOwnScope ==
    [][\A t \in DOMAIN tests :
          (RunAbTestAnalysis(t) /\ result'.kind = "ok")
              => C30_DisjointScopes(result'.stats.variant_results,
                                    CampaignTotals(tests[t]))]_vars

\* what the code does instead: no analysis made through run_ab_test_analysis
\* gives two variants different counters or declares a winner
C30_NeverGenuineWinner ==
    result.op = "analyze"
        => /\ ~HasWinner(result.winner)
           /\ \A i, j \in 1..Len(result.stats.variant_results) :
                 /\ result.stats.variant_results[i].impressions
                       = result.stats.variant_results[j].impressions
                 /\ result.stats.variant_results[i].clicks
                       = result.stats.variant_results[j].clicks

====
